---- MODULE Spec2Model ----
(***************************************************************************)
(* A model of lars.cache.lru_cache (src/lars/cache.py): the key builder,   *)
(* the three wrappers (maxsize == 0, maxsize is None, bounded LRU),        *)
(* cache_info and cache_clear, run by one or more concurrent callers; and  *)
(* of lars.sql.SQLTarget and OracleTarget (src/lars/sql.py): construction, *)
(* __enter__, write and __exit__, used by one thread.                      *)
(*                                                                         *)
(* Spec      calls with one hashable argument, computations that return    *)
(* SpecInfo  Spec, and callers that ask for cache_info()                   *)
(* SpecErr   unhashable arguments, computations that raise, maxsize -1     *)
(* SpecKw    calls with several keyword arguments                          *)
(* SpecLive  calls, cache_info(), cache_clear() under fair scheduling      *)
(* SpecSQL   one SQLTarget or OracleTarget                                 *)
(***************************************************************************)
EXTENDS Integers, Sequences, FiniteSets, TLC

(* ------------------------------ bounds --------------------------------- *)
\* the largest number of concurrent callers
NumThreads == 2
\* the largest bounded maxsize a cache is configured with
MaxMaxsize == 2
\* several callers: callers times operations (calls and clears) started in
\* one behaviour (two callers start 3 operations, three start 2)
MaxWork == 7
\* operations started in one behaviour by a single caller
MaxOpsSeq == 5

(* --------------------------- python values ----------------------------- *)
\* an argument value: its runtime type and its numeric value
Val(ty, v) == [k |-> "val", ty |-> ty, v |-> v]
\* kwd_mark = (object(),): one object, equal only to itself
kwd_mark == <<[k |-> "mark", ty |-> "object", v |-> 0]>>
\* type(v): a type object, equal only to itself
type(e) == [k |-> "type", ty |-> e.ty, v |-> 0]
\* the types of the single-argument fast path
fasttypes == {"int", "str", "frozenset", "NoneType"}
\* None, as a link's KEY
NoneKey == [kind |-> "none", elems |-> <<>>]
\* None, as a link's RESULT
NoneResult == 0

Numeric == {"int", "float"}
\* a == b on two objects that occur in keys
PyEq(a, b) ==
    IF a.k # b.k THEN FALSE
    ELSE IF a.k = "val"
         THEN IF a.ty \in Numeric /\ b.ty \in Numeric
              THEN a.v = b.v
              ELSE a.ty = b.ty /\ a.v = b.v
         ELSE a.ty = b.ty

\* a keyword name, a str
Name(n) == Val("str", n)

(* ------------------------------ calls ---------------------------------- *)
\* the calls the callers make: positional arguments, and keyword arguments
\* in the order they are written at the call site
CallSet ==
    << [args |-> <<Val("int", 3)>>,   kwds |-> <<>>],
       [args |-> <<Val("float", 3)>>, kwds |-> <<>>],
       [args |-> <<Val("int", 4)>>,   kwds |-> <<>>],
       [args |-> <<>>, kwds |-> <<[name |-> 1, value |-> Val("int", 3)]>>],
       [args |-> <<>>, kwds |-> <<[name |-> 1, value |-> Val("float", 3)]>>],
       \* f(a=3, b=4) and f(b=4, a=3)
       [args |-> <<>>, kwds |-> <<[name |-> 1, value |-> Val("int", 3)],
                                  [name |-> 2, value |-> Val("int", 4)]>>],
       [args |-> <<>>, kwds |-> <<[name |-> 2, value |-> Val("int", 4)],
                                  [name |-> 1, value |-> Val("int", 3)]>>],
       \* f([]) and f(a=[]): a list is not hashable
       [args |-> <<Val("list", 0)>>, kwds |-> <<>>],
       [args |-> <<>>, kwds |-> <<[name |-> 1, value |-> Val("list", 0)]>>] >>
CallIds == 1 .. Len(CallSet)
\* the calls with one hashable argument
BasicCalls == {c \in CallIds :
                 /\ Len(CallSet[c].args) + Len(CallSet[c].kwds) = 1
                 /\ \A i \in 1 .. Len(CallSet[c].args) :
                      CallSet[c].args[i].ty # "list"
                 /\ \A i \in 1 .. Len(CallSet[c].kwds) :
                      CallSet[c].kwds[i].value.ty # "list"}

\* user_function(*args, **kwds): deterministic, a different result per call
user_function(c) == c

(* --------------------------- the key builder --------------------------- *)
RECURSIVE Insert(_, _)
\* insert item into a list sorted by name
Insert(item, s) ==
    IF s = <<>> THEN <<item>>
    ELSE IF item.name <= Head(s).name THEN <<item>> \o s
         ELSE <<Head(s)>> \o Insert(item, Tail(s))
\* sorted as it would be if the items were left in the order of the call
sorted_Unsorted(items) == items
RECURSIVE sorted(_)
\* sorted(kwds.items())
sorted(items) ==
    IF items = <<>> THEN <<>> ELSE Insert(Head(items), sorted(Tail(items)))
RECURSIVE Flatten(_)
\* for item in sorted_items: key += item
Flatten(items) ==
    IF items = <<>> THEN <<>>
    ELSE <<Name(Head(items).name), Head(items).value>> \o Flatten(Tail(items))
\* Types as it would be with the types left out of the key
Types_Dropped(vals) == <<>>
\* tuple(type(v) for v in args)
Types(vals) == [i \in 1 .. Len(vals) |-> type(vals[i])]
Values(items) == [i \in 1 .. Len(items) |-> items[i].value]

\* hash(tup) raises TypeError: some element is a list
Unhashable(tup) ==
    \E i \in 1 .. Len(tup) : tup[i].k = "val" /\ tup[i].ty = "list"
\* the TypeError that leaves the key builder instead of a key
TypeError == [kind |-> "TypeError", elems |-> <<>>]
\* _HashedSeq(tup): self.hashvalue = hash(tup)
_HashedSeq(tup) ==
    IF Unhashable(tup) THEN TypeError ELSE [kind |-> "seq", elems |-> tup]
_make_key(args, kwds, typ) ==
    LET sorted_items == sorted(kwds)
        key1 == IF kwds # <<>>
                THEN args \o kwd_mark \o Flatten(sorted_items)
                ELSE args
    IN IF typ
       THEN _HashedSeq(key1 \o Types(args)
                       \o (IF kwds # <<>> THEN Types(Values(sorted_items))
                           ELSE <<>>))
       ELSE IF Len(key1) = 1 /\ key1[1].k = "val" /\ key1[1].ty \in fasttypes
            THEN [kind |-> "raw", elems |-> key1]
            ELSE _HashedSeq(key1)

\* key1 == key2 (and hash(key1) == hash(key2)) as the dict sees it: a bare
\* argument, a tuple and a _HashedSeq (a list) are never equal to each other
KeyEq(k1, k2) ==
    /\ k1.kind = k2.kind
    /\ Len(k1.elems) = Len(k2.elems)
    /\ \A i \in 1 .. Len(k1.elems) : PyEq(k1.elems[i], k2.elems[i])


(* ------------------------------- state --------------------------------- *)
VARIABLES
    maxsize,        \* configuration: [none |-> TRUE] is None, else the int n
    typed,          \* configuration
    callers,        \* the threads that use the cache
    cache,          \* the dict: stored key -> result (unbounded) or link
    links,          \* the heap of links: id -> [PREV, NEXT, KEY, RESULT]
    nonlocal_root,  \* the id of the sentinel link
    stats,          \* <<hits, misses>>
    lock,           \* the owner of the RLock, or NoOwner
    pc,             \* each thread's position
    call,           \* each thread's current call (an index of CallSet)
    key,            \* each thread's local key
    result,         \* each thread's local result
    tmp,            \* each thread's read of a counter inside "+= 1"
    ops,            \* history: operations started
    done,           \* history: calls returned since the last cache_clear
    cleared,        \* history: some cache_clear has completed
    computed,       \* history: call -> times user_function ran it
    ret,            \* history: the last return
    order,          \* history: the bounded cache's keys, least recently accessed first
    evicted,        \* history: the key the last eviction removed
    branch,         \* history: the branch the last bounded insert took
    info,           \* each thread's reads inside cache_info()
    reported        \* history: the last tuple cache_info() returned

config == <<maxsize, typed, callers>>
shared == <<cache, links, nonlocal_root, stats, lock>>
locals == <<pc, call, key, result, tmp>>
history == <<ops, done, cleared, computed, ret, order, evicted, branch>>
infos == <<info, reported>>

\* an SQLTarget (src/lars/sql.py), used by one thread
VARIABLES
    phase,          \* "new", "rejected", "ready", "entered", "exited", "failed"
    klass,          \* the class that was constructed
    insert,         \* self.insert
    commit,         \* self.commit
    type_map,       \* self.type_map: python type -> SQL type
    count,          \* self.count
    _buffer,        \* self._buffer: the rows waiting for the next INSERT
    passed,         \* history: the arguments the constructor was called with
    written,        \* history: the rows write() was called with so far
    sent,           \* history: the rows of the INSERTs that succeeded since __enter__
    executed,       \* history: the rows passed to cursor.execute, in order
    pending,        \* history: the rows inserted since the last connection.commit()
    contexts,       \* history: the calls of __enter__
    outcome         \* history: how the last method call ended

target == <<phase, klass, insert, commit, type_map, count, _buffer,
            passed, written, sent, executed, pending, contexts, outcome>>
vars == <<config, shared, locals, history, infos, target>>

Threads == 1 .. NumThreads
\* the RLock is not owned
NoOwner == 0
\* names for the stats fields (sequences count from 1)
HITS == 1
MISSES == 2

\* maxsize=None
Unbounded == [none |-> TRUE, n |-> 0]
\* maxsize=n
Sized(n) == [none |-> FALSE, n |-> n]

\* root[:] = [root, root, None, None]
EmptyRoot(r) == [PREV |-> r, NEXT |-> r, KEY |-> NoneKey, RESULT |-> NoneResult]

\* no call in progress
NoCall == 0
NoRet == [kind |-> "none", value |-> NoneResult, call |-> NoCall]
\* cache_info() has not returned yet
NoInfo == [hits |-> 0, misses |-> 0, maxsize |-> Unbounded, currsize |-> 0, valid |-> FALSE]
OpsBound ==
    IF Cardinality(callers) = 1 THEN MaxOpsSeq
    ELSE MaxWork \div Cardinality(callers)
\* thread t may enter the next operation
MayStart(t) == t \in callers /\ pc[t] = "idle" /\ ops < OpsBound

\* no SQLTarget has been constructed
NoTarget ==
    /\ phase = "new"
    /\ klass = "none"
    /\ insert = 0
    /\ commit = 0
    /\ type_map = <<>>
    /\ count = 0
    /\ _buffer = <<>>
    /\ passed = <<>>
    /\ written = 0
    /\ sent = {}
    /\ executed = <<>>
    /\ pending = {}
    /\ contexts = 0
    /\ outcome = "none"
\* the state decorating_function leaves (lines 119-129)
Fresh ==
    /\ cache = <<>>
    /\ nonlocal_root = 0
    /\ links = (0 :> EmptyRoot(0))
    /\ stats = <<0, 0>>
    /\ lock = NoOwner
    /\ pc = [t \in Threads |-> "idle"]
    /\ call = [t \in Threads |-> NoCall]
    /\ key = [t \in Threads |-> NoneKey]
    /\ result = [t \in Threads |-> NoneResult]
    /\ tmp = [t \in Threads |-> 0]
    /\ ops = 0
    /\ done = 0
    /\ cleared = FALSE
    /\ computed = [c \in CallIds |-> 0]
    /\ ret = NoRet
    /\ order = <<>>
    /\ evicted = NoneKey
    /\ branch = "none"
    /\ info = [t \in Threads |-> <<>>]
    /\ reported = NoInfo
    /\ NoTarget
\* ... for each configuration
Init ==
    /\ maxsize \in {Unbounded} \cup {Sized(n) : n \in 0 .. MaxMaxsize}
    /\ typed \in BOOLEAN
    /\ callers \in {1 .. n : n \in 1 .. NumThreads}
    /\ Fresh

(* ------------------------------ the dict ------------------------------- *)
\* the stored keys equal to k (the dict keeps at most one)
Find(d, k) == {s \in DOMAIN d : KeyEq(s, k)}
\* In as it would be if a lookup never found the key
In_Never(d, k) == FALSE
\* key in cache
In(d, k) == Find(d, k) # {}
\* cache[key], cache.get(key)
Get(d, k) == d[CHOOSE s \in Find(d, k) : TRUE]
\* cache[key] = value: an equal stored key keeps its place and takes the value
Put(d, k, v) ==
    IF In(d, k)
    THEN [s \in DOMAIN d |-> IF KeyEq(s, k) THEN v ELSE d[s]]
    ELSE [s \in DOMAIN d \cup {k} |-> IF s = k THEN v ELSE d[s]]
\* del cache[key]
Del(d, k) == [s \in DOMAIN d \ Find(d, k) |-> d[s]]
\* len(cache)
_len(d) == Cardinality(DOMAIN d)

(* ------------------------- history bookkeeping ------------------------- *)
RECURSIVE Without(_, _)
Without(s, k) ==
    IF s = <<>> THEN <<>>
    ELSE IF KeyEq(Head(s), k) THEN Without(Tail(s), k)
         ELSE <<Head(s)>> \o Without(Tail(s), k)
\* k has just been accessed (inserted or hit)
Accessed(s, k) == Without(s, k) \o <<k>>

\* the wrapper's frame is gone
Leave(t) ==
    /\ pc' = [pc EXCEPT ![t] = "idle"]
    /\ call' = [call EXCEPT ![t] = NoCall]
    /\ key' = [key EXCEPT ![t] = NoneKey]
    /\ result' = [result EXCEPT ![t] = NoneResult]
    /\ tmp' = [tmp EXCEPT ![t] = 0]
\* return result: value v, after a hit or a miss
Return(t, kind, v) ==
    /\ ret' = [kind |-> kind, value |-> v, call |-> call[t]]
    /\ done' = done + 1
    /\ Leave(t)
\* an exception leaves the wrapper
Raise(t, kind) ==
    /\ ret' = [kind |-> kind, value |-> NoneResult, call |-> call[t]]
    /\ Leave(t)


(* ----------------------------- the links ------------------------------- *)
\* link[field] = value
SetField(h, link, field, value) ==
    [h EXCEPT ![link] = [@ EXCEPT ![field] = value]]
\* a new list object: an id no live link has
NewLink(h) == CHOOSE n \in 0 .. Cardinality(DOMAIN h) : n \notin DOMAIN h

\* MoveToFront as it would be if a hit left the link where it is
MoveToFront_Unmoved(h, root, link) == h
\* MoveToFront as it would be without lines 166-169, which take the link
\* out of its old place
MoveToFront_Linked(h, root, link) ==
    LET last == h[root].PREV
        h3 == SetField(h, last, "NEXT", link)
        h4 == SetField(h3, root, "PREV", link)
        h5 == SetField(h4, link, "PREV", last)
    IN SetField(h5, link, "NEXT", root)
\* lines 165-172: move link to the front of the list (just before root)
MoveToFront(h, root, link) ==
    LET link_prev == h[link].PREV
        link_next == h[link].NEXT
        h1 == SetField(h, link_prev, "NEXT", link_next)
        h2 == SetField(h1, link_next, "PREV", link_prev)
        last == h2[root].PREV
        h3 == SetField(h2, last, "NEXT", link)
        h4 == SetField(h3, root, "PREV", link)
        h5 == SetField(h4, link, "PREV", last)
    IN SetField(h5, link, "NEXT", root)

\* AppendLink as it would be if the new link went in after the root, at
\* the oldest end of the list
AppendLink_Oldest(h, root, k, r) ==
    LET first == h[root].NEXT
        link == NewLink(h)
        h1 == [n \in DOMAIN h \cup {link} |->
                 IF n = link
                 THEN [PREV |-> root, NEXT |-> first, KEY |-> k, RESULT |-> r]
                 ELSE h[n]]
        h2 == SetField(h1, first, "PREV", link)
    IN [heap |-> SetField(h2, root, "NEXT", link), link |-> link]
\* AppendLink as it would be without root[PREV] = link
AppendLink_OneWay(h, root, k, r) ==
    LET last == h[root].PREV
        link == NewLink(h)
        h1 == [n \in DOMAIN h \cup {link} |->
                 IF n = link
                 THEN [PREV |-> last, NEXT |-> root, KEY |-> k, RESULT |-> r]
                 ELSE h[n]]
    IN [heap |-> SetField(h1, last, "NEXT", link), link |-> link]
\* lines 198-200: a new link at the front of the list; the heap and the link
AppendLink(h, root, k, r) ==
    LET last == h[root].PREV
        link == NewLink(h)
        h1 == [n \in DOMAIN h \cup {link} |->
                 IF n = link
                 THEN [PREV |-> last, NEXT |-> root, KEY |-> k, RESULT |-> r]
                 ELSE h[n]]
        h2 == SetField(h1, last, "NEXT", link)
    IN [heap |-> SetField(h2, root, "PREV", link), link |-> link]

\* Rotate as it would be if the key to delete were read from the newest
\* link, root[PREV], instead of the new root
Rotate_Newest(h, root, k, r) ==
    LET oldroot == root
        h1 == SetField(h, oldroot, "KEY", k)
        h2 == SetField(h1, oldroot, "RESULT", r)
        newroot == h2[oldroot].NEXT
        oldkey == h2[h2[oldroot].PREV].KEY
        h3 == SetField(h2, newroot, "RESULT", NoneResult)
    IN [heap |-> SetField(h3, newroot, "KEY", NoneKey),
        root |-> newroot, oldkey |-> oldkey]
\* lines 186-192: the old root takes the key and the result, the oldest link
\* is emptied and becomes the root; the heap, the new root and the old key
Rotate(h, root, k, r) ==
    LET oldroot == root
        h1 == SetField(h, oldroot, "KEY", k)
        h2 == SetField(h1, oldroot, "RESULT", r)
        newroot == h2[oldroot].NEXT
        oldkey == h2[newroot].KEY
        h3 == SetField(h2, newroot, "RESULT", NoneResult)
    IN [heap |-> SetField(h3, newroot, "KEY", NoneKey),
        root |-> newroot, oldkey |-> oldkey]

\* Full as it would be with the comparison off by one
Full_Strict(d) == _len(d) > maxsize.n
\* line 184: the cache is full
Full(d) == _len(d) >= maxsize.n
\* Existing as it would be if the new result replaced the stored one
Existing_Overwritten(h, link, r) == SetField(h, link, "RESULT", r)
\* lines 178-183: the key is there already: pass, its link stays as it is
Existing(h, link, r) == h
\* Present as it would be with the second look left out
Present_Never(d, k) == FALSE
\* line 178: key in cache, asked again under the lock
Present(d, k) == In(d, k)
\* Incr as it would be with the update left out
Incr_Dropped(s, i) == s
\* Incr as it would be if the counter went up by two
Incr_Twice(s, i) == [s EXCEPT ![i] = @ + 2]
\* stats[i] += 1 under the lock (lines 173, 201)
Incr(s, i) == [s EXCEPT ![i] = @ + 1]
\* clear as it would be if the dict were left as it is
clear_Kept(d) == d
\* line 217: cache.clear()
clear(d) == <<>>

(* ----------------------------- operations ------------------------------ *)
\* the key of call c: line 144 (maxsize is None) and line 159 (bounded)
CallKey(c) ==
    IF maxsize.none
    THEN _make_key(CallSet[c].args, CallSet[c].kwds, typed)
    ELSE IF CallSet[c].kwds # <<>> \/ typed
         THEN _make_key(CallSet[c].args, CallSet[c].kwds, typed)
         ELSE [kind |-> "tuple", elems |-> CallSet[c].args]

\* wrapper(*args, **kwds) is entered: lines 136, 144, 159
StartCall(t, c) ==
    /\ MayStart(t)
    /\ ops' = ops + 1
    /\ IF maxsize = Sized(0)
       THEN /\ pc' = [pc EXCEPT ![t] = "d_call"]
            /\ call' = [call EXCEPT ![t] = c]
            /\ UNCHANGED <<key, ret>>
       ELSE IF CallKey(c) = TypeError
       THEN \* make_key raises: the call is over
            /\ ret' = [kind |-> "TypeError", value |-> NoneResult, call |-> c]
            /\ UNCHANGED <<pc, call, key>>
       ELSE /\ pc' = [pc EXCEPT ![t] =
                       IF maxsize.none THEN "u_get" ELSE "b_acquire"]
            /\ call' = [call EXCEPT ![t] = c]
            /\ key' = [key EXCEPT ![t] = CallKey(c)]
            /\ UNCHANGED ret
    /\ UNCHANGED <<target, infos, config, shared, result, tmp>>
    /\ UNCHANGED <<done, cleared, computed, order, evicted, branch>>

\* result = user_function(*args, **kwds): lines 136, 150, 175
Compute(t, from, to) ==
    /\ pc[t] = from
    /\ result' = [result EXCEPT ![t] = user_function(call[t])]
    /\ computed' = [computed EXCEPT ![call[t]] = @ + 1]
    /\ pc' = [pc EXCEPT ![t] = to]
    /\ UNCHANGED <<target, infos, config, shared, call, key, tmp>>
    /\ UNCHANGED <<ops, done, cleared, ret, order, evicted, branch>>

\* stats[i] += 1, first half: the counter is read
ReadStat(t, from, i, to) ==
    /\ pc[t] = from
    /\ tmp' = [tmp EXCEPT ![t] = stats[i]]
    /\ pc' = [pc EXCEPT ![t] = to]
    /\ UNCHANGED <<target, infos, config, shared, call, key, result, history>>

\* stats[i] += 1, second half: the sum is stored; then return result
WriteStat(t, from, i, kind) ==
    /\ pc[t] = from
    /\ stats' = [stats EXCEPT ![i] = tmp[t] + 1]
    /\ Return(t, kind, result[t])
    /\ UNCHANGED <<target, infos, config, cache, links, nonlocal_root, lock>>
    /\ UNCHANGED <<ops, cleared, computed, order, evicted, branch>>

\* maxsize == 0, lines 133-138
DCall(t) == Compute(t, "d_call", "d_read")
DRead(t) == ReadStat(t, "d_read", MISSES, "d_write")
DWrite(t) == WriteStat(t, "d_write", MISSES, "miss")

\* maxsize is None, lines 146-147: result = cache_get(key, root)
UGet(t) ==
    /\ pc[t] = "u_get"
    /\ IF In(cache, key[t])
       THEN /\ result' = [result EXCEPT ![t] = Get(cache, key[t])]
            /\ pc' = [pc EXCEPT ![t] = "u_hit_read"]
       ELSE /\ pc' = [pc EXCEPT ![t] = "u_call"]
            /\ UNCHANGED result
    /\ UNCHANGED <<target, infos, config, shared, call, key, tmp, history>>
\* lines 148-149
UHitRead(t) == ReadStat(t, "u_hit_read", HITS, "u_hit_write")
UHitWrite(t) == WriteStat(t, "u_hit_write", HITS, "hit")
\* line 150
UCall(t) == Compute(t, "u_call", "u_store")
\* line 151: cache[key] = result
UStore(t) ==
    /\ pc[t] = "u_store"
    /\ cache' = Put(cache, key[t], result[t])
    /\ pc' = [pc EXCEPT ![t] = "u_miss_read"]
    /\ UNCHANGED <<target, infos, config, links, nonlocal_root, stats, lock>>
    /\ UNCHANGED <<call, key, result, tmp, history>>
\* lines 152-153
UMissRead(t) == ReadStat(t, "u_miss_read", MISSES, "u_miss_write")
UMissWrite(t) == WriteStat(t, "u_miss_write", MISSES, "miss")

\* Release as it would be if leaving "with lock:" kept the lock
Release_Held(t) == t
\* "with lock:" is left (lines 174, 202, 210, 220): the owner of the lock
Release(t) == NoOwner
\* Unwind as it would be if an exception leaving "with lock:" kept the lock
Unwind_Held(t) == t
\* an exception leaves "with lock:" (inside lines 160-174 and 176-201): the
\* lock's __exit__ runs and releases it; the owner of the lock afterwards
Unwind(t) == NoOwner
\* "with lock:" is entered (lines 160, 176, 208, 216)
Acquire(t, from, to) ==
    /\ pc[t] = from
    /\ lock \in {NoOwner, t}
    /\ lock' = t
    /\ pc' = [pc EXCEPT ![t] = to]
    /\ UNCHANGED <<target, infos, config, cache, links, nonlocal_root, stats>>
    /\ UNCHANGED <<call, key, result, tmp, history>>

\* bounded, line 160
BAcquire(t) == Acquire(t, "b_acquire", "b_lookup")
\* bounded, lines 161-174: the lookup under the lock
BLookup(t) ==
    /\ pc[t] = "b_lookup" /\ lock = t
    /\ lock' = IF Unhashable(key[t].elems) THEN Unwind(t) ELSE Release(t)
    /\ IF Unhashable(key[t].elems)
       THEN \* key is args: cache_get(key) hashes it and raises TypeError
            /\ Raise(t, "TypeError")
            /\ UNCHANGED <<links, stats, order, done>>
       ELSE IF In(cache, key[t])
       THEN LET link == Get(cache, key[t])
                root == nonlocal_root
            IN /\ links' = MoveToFront(links, root, link)
               /\ stats' = Incr(stats, HITS)
               /\ order' = Accessed(order, key[t])
               /\ Return(t, "hit", links[link].RESULT)
       ELSE /\ pc' = [pc EXCEPT ![t] = "b_call"]
            /\ UNCHANGED <<links, call, key, result, tmp, stats, order, ret, done>>
    /\ UNCHANGED <<target, infos, config, cache, nonlocal_root>>
    /\ UNCHANGED <<ops, cleared, computed, evicted, branch>>
\* line 175
BCall(t) == Compute(t, "b_call", "b_acquire2")
\* line 176
BAcquire2(t) == Acquire(t, "b_acquire2", "b_insert")
\* bounded, lines 177-202: the insert under the lock
BInsert(t) ==
    /\ pc[t] = "b_insert" /\ lock = t
    /\ LET root == nonlocal_root
       IN IF Present(cache, key[t])
          THEN /\ branch' = "present"
               /\ lock' = Release(t)
               /\ links' = Existing(links, Get(cache, key[t]), result[t])
               /\ stats' = Incr(stats, MISSES)
               /\ Return(t, "miss", result[t])
               /\ UNCHANGED <<cache, nonlocal_root, order, evicted>>
          ELSE IF Full(cache)
          THEN LET r == Rotate(links, root, key[t], result[t])
               IN /\ branch' = "evict"
                  /\ links' = r.heap
                  /\ nonlocal_root' = r.root
                  /\ IF In(cache, r.oldkey)
                     THEN /\ cache' = Put(Del(cache, r.oldkey), key[t], root)
                          /\ stats' = Incr(stats, MISSES)
                          /\ evicted' = r.oldkey
                          /\ order' = Accessed(Without(order, r.oldkey), key[t])
                          /\ Return(t, "miss", result[t])
                          /\ lock' = Release(t)
                     ELSE \* del cache[oldkey] raises KeyError
                          /\ Raise(t, "KeyError")
                          /\ lock' = Unwind(t)
                          /\ UNCHANGED <<cache, stats, evicted, order, done>>
          ELSE LET a == AppendLink(links, root, key[t], result[t])
               IN /\ branch' = "new"
                  /\ links' = a.heap
                  /\ cache' = Put(cache, key[t], a.link)
                  /\ stats' = Incr(stats, MISSES)
                  /\ order' = Accessed(order, key[t])
                  /\ Return(t, "miss", result[t])
                  /\ lock' = Release(t)
                  /\ UNCHANGED <<nonlocal_root, evicted>>
    /\ UNCHANGED <<target, infos, config, ops, cleared, computed>>

\* cache_clear() is entered
StartClear(t) ==
    /\ MayStart(t)
    /\ ops' = ops + 1
    /\ pc' = [pc EXCEPT ![t] = "c_acquire"]
    /\ UNCHANGED <<target, infos, config, shared, call, key, result, tmp>>
    /\ UNCHANGED <<done, cleared, computed, ret, order, evicted, branch>>
\* line 216
CAcquire(t) == Acquire(t, "c_acquire", "c_clear")
\* lines 217-219: cache.clear(); root[:] = [root, root, None, None]
\* (the links the root no longer reaches are garbage)
CClear(t) ==
    /\ pc[t] = "c_clear" /\ lock = t
    /\ cache' = clear(cache)
    /\ links' = (nonlocal_root :> EmptyRoot(nonlocal_root))
    /\ order' = <<>>
    /\ pc' = [pc EXCEPT ![t] = "c_stats"]
    /\ UNCHANGED <<target, infos, config, nonlocal_root, stats, lock>>
    /\ UNCHANGED <<call, key, result, tmp>>
    /\ UNCHANGED <<ops, done, cleared, computed, ret, evicted, branch>>
\* line 220: stats[:] = [0, 0]; the lock is released
CStats(t) ==
    /\ pc[t] = "c_stats" /\ lock = t
    /\ stats' = <<0, 0>>
    /\ lock' = Release(t)
    /\ done' = 0
    /\ cleared' = TRUE
    /\ pc' = [pc EXCEPT ![t] = "idle"]
    /\ UNCHANGED <<target, infos, config, cache, links, nonlocal_root>>
    /\ UNCHANGED <<call, key, result, tmp>>
    /\ UNCHANGED <<ops, computed, ret, order, evicted, branch>>

\* a step of thread t inside a call, or of cache_clear()
Step(t) ==
        \/ DCall(t) \/ DRead(t) \/ DWrite(t)
        \/ UGet(t) \/ UHitRead(t) \/ UHitWrite(t)
        \/ UCall(t) \/ UStore(t) \/ UMissRead(t) \/ UMissWrite(t)
        \/ BAcquire(t) \/ BLookup(t) \/ BCall(t) \/ BAcquire2(t) \/ BInsert(t)
        \/ StartClear(t) \/ CAcquire(t) \/ CClear(t) \/ CStats(t)

Next ==
    \E t \in Threads :
        \/ \E c \in BasicCalls : StartCall(t, c)
        \/ Step(t)

Spec == Init /\ [][Next]_vars

(* ------------------------------ failures ------------------------------- *)
\* Fail as it would be if the wrapper stored None for the key before the
\* exception left it
Fail_Stored(t, from) ==
    /\ pc[t] = from
    /\ computed' = [computed EXCEPT ![call[t]] = @ + 1]
    /\ cache' = Put(cache, key[t], NoneResult)
    /\ Raise(t, "Failure")
    /\ UNCHANGED <<target, infos, config, links, nonlocal_root, stats, lock>>
    /\ UNCHANGED <<ops, done, cleared, order, evicted, branch>>
\* user_function(*args, **kwds) raises: the exception leaves the wrapper
Fail(t, from) ==
    /\ pc[t] = from
    /\ computed' = [computed EXCEPT ![call[t]] = @ + 1]
    /\ Raise(t, "Failure")
    /\ UNCHANGED <<target, infos, config, shared>>
    /\ UNCHANGED <<ops, done, cleared, order, evicted, branch>>
\* line 136
DFail(t) == Fail(t, "d_call")
\* line 150
UFail(t) == Fail(t, "u_call")
\* line 175
BFail(t) == Fail(t, "b_call")

\* lru_cache(maxsize=-1): nothing checks maxsize
Negative == Sized(-1)
\* every configuration, a negative maxsize included
InitErr ==
    /\ maxsize \in {Unbounded, Negative} \cup {Sized(n) : n \in 0 .. MaxMaxsize}
    /\ typed \in BOOLEAN
    /\ callers \in {1 .. n : n \in 1 .. NumThreads}
    /\ Fresh
\* f(3), f(4), f([]) and f(a=[])
ErrCalls == {1, 3, 8, 9}
\* the callers also pass unhashable arguments, and the computation may raise
NextErr ==
    \E t \in Threads :
        \/ \E c \in ErrCalls : StartCall(t, c)
        \/ Step(t)
        \/ DFail(t) \/ UFail(t) \/ BFail(t)

SpecErr == InitErr /\ [][NextErr]_vars

\* f(3), f(a=3), f(a=3, b=4) and f(b=4, a=3)
KwCalls == {1, 4, 6, 7}
\* the callers pass keyword arguments in either order
NextKw ==
    \E t \in Threads :
        \/ \E c \in KwCalls : StartCall(t, c)
        \/ Step(t)

SpecKw == Init /\ [][NextKw]_vars

(* ----------------------------- cache_info ------------------------------ *)
\* _CacheInfo(hits, misses, maxsize, currsize)
_CacheInfo(h, m, ms, cs) ==
    [hits |-> h, misses |-> m, maxsize |-> ms, currsize |-> cs, valid |-> TRUE]
\* cache_info() is entered
StartInfo(t) ==
    /\ MayStart(t)
    /\ ops' = ops + 1
    /\ pc' = [pc EXCEPT ![t] = "i_acquire"]
    /\ UNCHANGED <<target, infos, config, shared, call, key, result, tmp>>
    /\ UNCHANGED <<done, cleared, computed, ret, order, evicted, branch>>
\* line 208
IAcquire(t) == Acquire(t, "i_acquire", "i_hits")
\* line 209: the arguments are evaluated from left to right, stats[HITS] ...
IHits(t) ==
    /\ pc[t] = "i_hits" /\ lock = t
    /\ info' = [info EXCEPT ![t] = <<stats[HITS]>>]
    /\ pc' = [pc EXCEPT ![t] = "i_misses"]
    /\ UNCHANGED <<target, reported, config, shared, call, key, result, tmp, history>>
\* ... then stats[MISSES] ...
IMisses(t) ==
    /\ pc[t] = "i_misses" /\ lock = t
    /\ info' = [info EXCEPT ![t] = Append(@, stats[MISSES])]
    /\ pc' = [pc EXCEPT ![t] = "i_len"]
    /\ UNCHANGED <<target, reported, config, shared, call, key, result, tmp, history>>
\* ... then maxsize and len(cache) (line 210); the tuple is returned and the
\* lock is released
ILen(t) ==
    /\ pc[t] = "i_len" /\ lock = t
    /\ reported' = _CacheInfo(info[t][1], info[t][2], maxsize, _len(cache))
    /\ info' = [info EXCEPT ![t] = <<>>]
    /\ lock' = Release(t)
    /\ pc' = [pc EXCEPT ![t] = "idle"]
    /\ UNCHANGED <<target, config, cache, links, nonlocal_root, stats>>
    /\ UNCHANGED <<call, key, result, tmp, history>>

\* the callers also ask for the statistics
NextInfo ==
    \/ Next
    \/ \E t \in Threads :
         StartInfo(t) \/ IAcquire(t) \/ IHits(t) \/ IMisses(t) \/ ILen(t)

SpecInfo == Init /\ [][NextInfo]_vars

(* ------------------------------ scheduling ----------------------------- *)
\* f(3), f(4) and f([])
LiveCalls == {1, 3, 8}
\* the steps by which thread t goes on with the operation it is in: the
\* computation returns or raises, and every other step is the next
\* statement of the wrapper, of cache_info() or of cache_clear()
Continue(t) ==
    \/ DCall(t) \/ DRead(t) \/ DWrite(t) \/ DFail(t)
    \/ UGet(t) \/ UHitRead(t) \/ UHitWrite(t)
    \/ UCall(t) \/ UStore(t) \/ UMissRead(t) \/ UMissWrite(t) \/ UFail(t)
    \/ BAcquire(t) \/ BLookup(t) \/ BCall(t) \/ BAcquire2(t) \/ BInsert(t)
    \/ BFail(t)
    \/ CAcquire(t) \/ CClear(t) \/ CStats(t)
    \/ IAcquire(t) \/ IHits(t) \/ IMisses(t) \/ ILen(t)
\* calls, cache_info() and cache_clear() from every caller, the computation
\* returning or raising
NextLive ==
    \E t \in Threads :
        \/ \E c \in LiveCalls : StartCall(t, c)
        \/ StartClear(t) \/ StartInfo(t)
        \/ Continue(t)
\* every maxsize, untyped: the key of f([]) is then the tuple of arguments
\* itself and is hashed under the lock (typed only changes how the key is
\* built, before the lock is taken)
InitLive ==
    /\ maxsize \in {Unbounded, Negative} \cup {Sized(n) : n \in 0 .. MaxMaxsize}
    /\ typed = FALSE
    /\ callers \in {1 .. n : n \in 1 .. NumThreads}
    /\ Fresh
\* a thread that can go on is eventually scheduled (the interpreter
\* switches threads, and a thread blocked on the lock is woken when it is
\* released)
SpecLive ==
    /\ InitLive /\ [][NextLive]_vars
    /\ \A t \in Threads : WF_vars(Continue(t))

(* ------------------------- SQLTarget (sql.py) -------------------------- *)
\* the largest insert a target is constructed with
MaxInsert == 2
\* the largest commit a target is constructed with
MaxCommit == 4
\* the rows written in one behaviour
MaxRows == 6
\* the with-blocks entered in one behaviour
MaxContexts == 2

\* the type parameters, in the order of SQLTarget.__init__ (lines 274-277)
TypeParams ==
    << "str_type", "int_type", "fixed_type", "bool_type", "date_type",
       "time_type", "datetime_type", "ip_type", "hostname_type", "path_type" >>
ParamNames == {TypeParams[i] : i \in 1 .. Len(TypeParams)}
\* the defaults of SQLTarget.__init__ (lines 274-277)
SQLDefaults ==
    [str_type |-> "VARCHAR(1000)", int_type |-> "INTEGER",
     fixed_type |-> "DOUBLE", bool_type |-> "SMALLINT", date_type |-> "DATE",
     time_type |-> "TIME", datetime_type |-> "TIMESTAMP",
     ip_type |-> "VARCHAR(53)", hostname_type |-> "VARCHAR(255)",
     path_type |-> "VARCHAR(260)"]
\* the defaults of OracleTarget.__init__ (lines 507-510)
OracleDefaults ==
    [str_type |-> "VARCHAR2(1000)", int_type |-> "NUMBER(10)",
     fixed_type |-> "NUMBER", bool_type |-> "NUMBER(1)", date_type |-> "DATE",
     time_type |-> "DATE", datetime_type |-> "DATE",
     ip_type |-> "VARCHAR2(53)", hostname_type |-> "VARCHAR2(255)",
     path_type |-> "VARCHAR2(260)"]
\* what a caller passes for a type parameter it sets itself
Custom ==
    [str_type |-> "TEXT", int_type |-> "BIGINT", fixed_type |-> "REAL",
     bool_type |-> "BOOLEAN", date_type |-> "MYDATE", time_type |-> "MYTIME",
     datetime_type |-> "MYTIMESTAMP", ip_type |-> "INET",
     hostname_type |-> "MYHOST", path_type |-> "MYPATH"]
\* the sets of type parameters a caller sets itself
Given == {{}, {"int_type"}, {"fixed_type", "path_type"}, ParamNames}

\* the parameters of a function after binding: the positional values go to
\* the first names, in order, and the other names take their defaults
Bind(values, defaults) ==
    [n \in ParamNames |->
       LET i == CHOOSE j \in 1 .. Len(TypeParams) : TypeParams[j] = n
       IN IF i <= Len(values) THEN values[i] ELSE defaults[n]]
\* the parameters a caller's keywords give: its own values for the names in
\* given, the defaults for the others
Keywords(given, defaults) ==
    [n \in ParamNames |-> IF n \in given THEN Custom[n] ELSE defaults[n]]

\* self.type_map of SQLTarget.__init__ (lines 296-318), from its parameters
TypeMap(p) ==
    [str |-> p.str_type, int |-> p.int_type, float |-> p.fixed_type,
     bool |-> p.bool_type, date |-> p.date_type, time |-> p.time_type,
     datetime |-> p.datetime_type, IPv4Address |-> p.ip_type,
     IPv6Address |-> p.ip_type,
     lars_Date |-> p.date_type, lars_Time |-> p.time_type,
     lars_DateTime |-> p.datetime_type, Url |-> p.str_type,
     lars_IPv4Address |-> p.ip_type, lars_IPv6Address |-> p.ip_type,
     IPv4Port |-> p.ip_type, IPv6Port |-> p.ip_type,
     Hostname |-> p.hostname_type, Path |-> p.path_type]
\* the type parameters SQLTarget.__init__ works with when class k is
\* constructed with parameters p: OracleTarget.__init__ passes eight of its
\* ten type parameters on, positionally (lines 511-514)
SuperParams(k, p) ==
    IF k = "OracleTarget"
    THEN Bind(<<p.str_type, p.bool_type, p.date_type, p.time_type,
                p.datetime_type, p.ip_type, p.hostname_type, p.path_type>>,
              SQLDefaults)
    ELSE p
\* NotMultiple as it would be with the test left out
NotMultiple_Unchecked(c, i) == FALSE
\* line 290: (commit % insert) != 0
NotMultiple(c, i) == (c % i) # 0
\* lines 285-291: the constructor raises ValueError
Rejected(i, c) == i < 1 \/ c < 1 \/ NotMultiple(c, i)

\* SQLTarget(...) or OracleTarget(...), lines 271-324 and 504-514
Construct(k, i, c, given) ==
    /\ phase = "new"
    /\ LET p == Keywords(given, IF k = "OracleTarget" THEN OracleDefaults
                                ELSE SQLDefaults)
       IN /\ passed' = [insert |-> i, commit |-> c, types |-> p]
          /\ klass' = k
          /\ IF Rejected(i, c)
             THEN /\ phase' = "rejected"
                  /\ outcome' = "ValueError"
                  /\ UNCHANGED <<insert, commit, type_map>>
             ELSE /\ phase' = "ready"
                  /\ outcome' = "ok"
                  /\ insert' = i
                  /\ commit' = c
                  /\ type_map' = TypeMap(SuperParams(k, p))
    /\ UNCHANGED <<count, _buffer, written, sent, executed, pending, contexts>>
    /\ UNCHANGED <<config, shared, locals, history, infos>>

\* __enter__, lines 326-331: a with-block begins, on a new target or after a
\* with-block that ended without an exception
Enter ==
    /\ phase \in {"ready", "exited"}
    /\ contexts < MaxContexts
    /\ contexts' = contexts + 1
    /\ phase' = "entered"
    /\ count' = 0
    /\ sent' = {}
    /\ outcome' = "ok"
    /\ UNCHANGED <<klass, insert, commit, type_map, _buffer>>
    /\ UNCHANGED <<passed, written, executed, pending>>
    /\ UNCHANGED <<config, shared, locals, history, infos>>

\* _insert_buffer as it would be if the rows were counted before the INSERT
\* is executed
_insert_buffer_Eager(buf, ok) ==
    [count |-> count + Len(buf), _buffer |-> <<>>, raised |-> ~ok,
     executed |-> buf]
\* _insert_buffer as it would be without the finally clause: a buffer whose
\* INSERT raised is kept
_insert_buffer_Kept(buf, ok) ==
    [count |-> IF ok THEN count + Len(buf) ELSE count,
     _buffer |-> IF ok THEN <<>> ELSE buf,
     raised |-> ~ok,
     executed |-> buf]
\* _insert_buffer, lines 381-393, on the buffer buf when execute succeeds
\* (ok) or raises: the new count, the new buffer, whether it raises, and
\* the rows given to cursor.execute
_insert_buffer(buf, ok) ==
    [count |-> IF ok THEN count + Len(buf) ELSE count,
     _buffer |-> <<>>,
     raised |-> ~ok,
     executed |-> buf]
\* the rows of a buffer
Rows(buf) == {buf[i] : i \in 1 .. Len(buf)}

\* write(row), lines 448-489; the INSERT it may execute succeeds or raises
Write(ok) ==
    /\ phase = "entered"
    /\ written < MaxRows
    /\ written' = written + 1
    /\ LET buf == Append(_buffer, written + 1)
       IN IF Len(buf) >= insert
          THEN LET r == _insert_buffer(buf, ok)
               IN /\ count' = r.count
                  /\ _buffer' = r._buffer
                  /\ executed' = executed \o r.executed
                  /\ IF r.raised
                     THEN /\ outcome' = "SQLError"
                          /\ UNCHANGED <<sent, pending>>
                     ELSE /\ outcome' = "ok"
                          /\ sent' = sent \cup Rows(buf)
                          /\ IF (r.count % commit) = 0
                             THEN \* connection.commit()
                                  pending' = {}
                             ELSE pending' = pending \cup Rows(buf)
          ELSE /\ ok
               /\ _buffer' = buf
               /\ outcome' = "ok"
               /\ UNCHANGED <<count, sent, executed, pending>>
    /\ UNCHANGED <<phase, klass, insert, commit, type_map, passed, contexts>>
    /\ UNCHANGED <<config, shared, locals, history, infos>>

\* __exit__, lines 333-351; the INSERT it may execute succeeds or raises
Exit(ok) ==
    /\ phase = "entered"
    /\ IF _buffer # <<>>
       THEN LET r == _insert_buffer(_buffer, ok)
            IN /\ count' = r.count
               /\ _buffer' = r._buffer
               /\ executed' = executed \o r.executed
               /\ IF r.raised
                  THEN /\ phase' = "failed"
                       /\ outcome' = "SQLError"
                       /\ UNCHANGED <<sent, pending>>
                  ELSE /\ phase' = "exited"
                       /\ outcome' = "ok"
                       /\ sent' = sent \cup Rows(_buffer)
                       /\ pending' = {}
       ELSE /\ ok
            /\ phase' = "exited"
            /\ outcome' = "ok"
            /\ pending' = {}
            /\ UNCHANGED <<count, _buffer, sent, executed>>
    /\ UNCHANGED <<klass, insert, commit, type_map, passed, written, contexts>>
    /\ UNCHANGED <<config, shared, locals, history, infos>>

\* one thread constructs a target and uses it in with-blocks
NextSQL ==
    \/ \E k \in {"SQLTarget", "OracleTarget"} :
         \E i \in 0 .. MaxInsert : \E c \in 0 .. MaxCommit :
           \E given \in Given : Construct(k, i, c, given)
    \/ Enter
    \/ \E ok \in BOOLEAN : Write(ok)
    \/ \E ok \in BOOLEAN : Exit(ok)

\* no cache is in use
InitSQL ==
    /\ maxsize = Sized(0)
    /\ typed = FALSE
    /\ callers = {}
    /\ Fresh

SpecSQL == InitSQL /\ [][NextSQL]_vars

(* --------------------------- what Info reports ------------------------- *)
hits == stats[HITS]
misses == stats[MISSES]
\* len(cache), line 210
currsize == _len(cache)

Disabled == maxsize = Sized(0)
IsUnbounded == maxsize.none
Bounded == ~maxsize.none /\ maxsize.n >= 1
Single == Cardinality(callers) = 1
Idle == \A t \in Threads : pc[t] = "idle"

RECURSIVE Walk(_, _, _, _)
\* the keys on the cycle, following NEXT from link n until the root (or
\* until fuel runs out, on a list that does not come back to the root)
Walk(h, n, root, fuel) ==
    IF n = root \/ fuel = 0 THEN <<>>
    ELSE <<h[n].KEY>> \o Walk(h, h[n].NEXT, root, fuel - 1)
\* the keys of the recency list, least recently used first
ListKeys ==
    Walk(links, links[nonlocal_root].NEXT, nonlocal_root,
         Cardinality(DOMAIN links))

(* ------------------------------- claims -------------------------------- *)

\* C1: for a single caller, in each of the three modes, whenever the caller
\* is between operations, hits + misses is the number of calls that have
\* returned since the last cache_clear(); with maxsize == 0 misses is that
\* number and hits is 0.
C1_HitsPlusMisses ==
    (Single /\ Idle) =>
        /\ hits + misses = done
        /\ Disabled => (misses = done /\ hits = 0)
\* a bounded cache, cleared once, then a miss and a hit
C1_Witness ==
    /\ Single /\ Idle /\ Bounded /\ cleared
    /\ hits = 1 /\ misses = 1 /\ done = 2

\* C2: a bounded cache never holds more than maxsize entries, whatever the
\* number of callers and the interleaving of their calls and clears.
C2_SizeBound == Bounded => currsize <= maxsize.n
\* several callers, maxsize 2, and a third key has just evicted one
C2_Witness ==
    /\ Cardinality(callers) > 1 /\ maxsize = Sized(2)
    /\ branch = "evict" /\ currsize = 2 /\ evicted # NoneKey

\* the stored keys a step removes from the dict
Removed == {k \in DOMAIN cache : ~In(cache', k)}
\* C3: bounded, single caller: an insert of a new key into a full cache
\* removes exactly the key whose last access (insert or hit) is the oldest,
\* and nothing is removed while there is room.
C3_EvictsLRU ==
    [][\A t \in Threads :
         (Single /\ Bounded /\ pc[t] = "b_insert" /\ pc'[t] = "idle"
                 /\ ~In(cache, key[t]))
         => IF currsize = maxsize.n
            THEN /\ \E k \in Removed : Removed = {k} /\ KeyEq(k, Head(order))
                 /\ In(cache', key[t])
            ELSE Removed = {}]_vars
\* after f(3), f(4), f(3), a new key has evicted f(4) and kept f(3): f(3)
\* sits in the first link ever made, so it was inserted before f(4)
C3_Witness ==
    /\ Single /\ maxsize = Sized(2) /\ ~typed /\ ~cleared
    /\ hits = 1 /\ misses = 3 /\ branch = "evict"
    /\ KeyEq(evicted, [kind |-> "tuple", elems |-> <<Val("int", 4)>>])
    /\ In(cache, [kind |-> "tuple", elems |-> <<Val("int", 3)>>])
    /\ Get(cache, [kind |-> "tuple", elems |-> <<Val("int", 3)>>]) = 1

\* the call whose computation made the entry stored under k (user_function
\* returns the index of its call)
StoredResult(k) == IF maxsize.none THEN cache[k] ELSE links[cache[k]].RESULT
\* two calls with the same shape whose arguments are pairwise ==
ValueEq(c1, c2) ==
    LET a1 == CallSet[c1].args
        a2 == CallSet[c2].args
        k1 == sorted(CallSet[c1].kwds)
        k2 == sorted(CallSet[c2].kwds)
    IN /\ Len(a1) = Len(a2) /\ Len(k1) = Len(k2)
       /\ \A i \in 1 .. Len(a1) : PyEq(a1[i], a2[i])
       /\ \A i \in 1 .. Len(k1) :
            k1[i].name = k2[i].name /\ PyEq(k1[i].value, k2[i].value)
\* ... and some argument differs in runtime type
TypeDiffers(c1, c2) ==
    LET a1 == CallSet[c1].args
        a2 == CallSet[c2].args
        k1 == sorted(CallSet[c1].kwds)
        k2 == sorted(CallSet[c2].kwds)
    IN \/ \E i \in 1 .. Len(a1) : a1[i].ty # a2[i].ty
       \/ \E i \in 1 .. Len(k1) : k1[i].value.ty # k2[i].value.ty
\* thread t is about to look its key up
AtLookup(t) == pc[t] \in {"u_get", "b_lookup"}

\* C4: with typed=False, unbounded or bounded, a call whose arguments equal
\* in value those of the call that made a stored entry finds that entry (it
\* is a hit), and no two entries are stored for value-equal calls.
C4_UntypedSameEntry ==
    ~typed =>
        /\ \A t \in Threads : \A k \in DOMAIN cache :
             (AtLookup(t) /\ ValueEq(StoredResult(k), call[t]))
             => KeyEq(k, key[t])
        /\ \A k1, k2 \in DOMAIN cache :
             ValueEq(StoredResult(k1), StoredResult(k2)) => k1 = k2

\* C5: with typed=True, unbounded or bounded, a call whose arguments equal
\* in value but differ in type from those of the call that made a stored
\* entry does not find that entry: it misses and gets an entry of its own.
C5_TypedDistinct ==
    typed =>
        \A t \in Threads : \A k \in DOMAIN cache :
            (AtLookup(t) /\ ValueEq(StoredResult(k), call[t])
                         /\ TypeDiffers(StoredResult(k), call[t]))
            => ~KeyEq(k, key[t])
\* f(3), f(3.0), f(a=3) and f(a=3.0) each have their entry
C5_Witness ==
    /\ typed /\ IsUnbounded
    /\ {cache[k] : k \in DOMAIN cache} = {1, 2, 4, 5}
    /\ hits = 0 /\ misses = 4

InClear(t) == pc[t] \in {"c_acquire", "c_clear", "c_stats"}
\* the positions a call returns from after a miss
MissReturn == {"d_write", "u_miss_write", "b_insert"}
\* C6: cache_clear(), in every mode, empties the dict and the recency list
\* (lines 217-219), then zeroes hits and misses (line 220), and leaves
\* maxsize alone; when it returns to a single caller, or to any caller of a
\* bounded cache, hits, misses and currsize are 0 and the list is empty. For
\* a single caller the first call that returns after a cache_clear() returns
\* from a miss, with the value the computation has just produced.
C6_Clear ==
    [][\A t \in Threads :
         /\ (pc[t] = "c_clear" /\ pc'[t] = "c_stats")
            => /\ currsize' = 0
               /\ ListKeys' = <<>>
               /\ links'[nonlocal_root'] = EmptyRoot(nonlocal_root')
               /\ maxsize' = maxsize
         /\ (pc[t] = "c_stats" /\ pc'[t] = "idle")
            => /\ hits' = 0 /\ misses' = 0
               /\ maxsize' = maxsize
               /\ (Single \/ Bounded) => (currsize' = 0 /\ ListKeys' = <<>>)
         /\ (Single /\ cleared /\ done = 0 /\ ~InClear(t)
                    /\ pc[t] # "idle" /\ pc'[t] = "idle")
            => /\ pc[t] \in MissReturn
               /\ result[t] = user_function(call[t])
               /\ computed[call[t]] >= 1]_vars
\* a call, a clear, and the same call again: computed a second time
C6_Witness ==
    /\ Single /\ Idle /\ ~Disabled /\ cleared /\ ops = 3 /\ done = 1
    /\ \E c \in CallIds : computed[c] = 2
    /\ hits = 0 /\ misses = 1 /\ currsize = 1

\* no two stored keys are equal, and no two links of the list carry equal keys
NoDuplicates ==
    /\ \A k1, k2 \in DOMAIN cache : KeyEq(k1, k2) => k1 = k2
    /\ Bounded =>
         \A i, j \in 1 .. Len(ListKeys) :
            i # j => ~KeyEq(ListKeys[i], ListKeys[j])
\* the places of the list of keys l that carry a key equal to k
LinksOf(l, k) == {i \in 1 .. Len(l) : KeyEq(l[i], k)}
\* C7: whatever the interleaving of the callers, the dict and the recency
\* list never hold two entries for one key, and when a call that missed has
\* stored its result (alone or after another caller stored the same key)
\* there is exactly one entry for its key.
C7_OneEntryPerKey ==
    /\ NoDuplicates
    /\ [][/\ NoDuplicates'
          /\ \A t \in Threads :
               (\/ pc[t] = "u_store" /\ pc'[t] = "u_miss_read"
                \/ Bounded /\ pc[t] = "b_insert" /\ pc'[t] = "idle")
               => /\ Cardinality(Find(cache', key[t])) = 1
                  /\ Bounded => Cardinality(LinksOf(ListKeys', key[t])) = 1]_vars
\* two callers missed on the same cold key; the second found it present
C7_Witness ==
    /\ Cardinality(callers) > 1 /\ Idle /\ Bounded
    /\ branch = "present" /\ hits = 0 /\ misses = 2 /\ currsize = 1
    /\ \E c \in CallIds : computed[c] = 2

\* C8: with maxsize == 0, currsize and hits are always 0, and every call
\* that returns has run the computation and leaves misses one higher than
\* it was.
C8_DisabledCounts ==
    [][Disabled =>
         /\ currsize' = 0 /\ hits' = 0
         /\ \A t \in Threads :
              (pc[t] = "d_write" /\ pc'[t] = "idle")
              => /\ result[t] = user_function(call[t])
                 /\ misses' = misses + 1]_vars

RECURSIVE Sum(_, _)
\* the sum of f over the set S
Sum(f, S) ==
    IF S = {} THEN 0
    ELSE LET x == CHOOSE y \in S : TRUE IN f[x] + Sum(f, S \ {x})
\* the times the computation ran for calls with the key of call c
ClassComputed(c) ==
    Sum(computed, {d \in CallIds : KeyEq(CallKey(d), CallKey(c))})
\* C9: single caller, no clear, computations return. Unbounded: the
\* computation has run once for each key that is stored and never for any
\* other, and misses counts those runs. Bounded, while all calls so far used
\* one key (one entry, nothing evicted): the computation ran once, every
\* later call was a hit, and a hit returned the stored value.
C9_ComputedOnce ==
    (Single /\ Idle /\ ~cleared) =>
        /\ IsUnbounded =>
             /\ \A c \in CallIds :
                  /\ ClassComputed(c) <= 1
                  /\ ClassComputed(c) = 1 <=> In(cache, CallKey(c))
             /\ Sum(computed, CallIds) = misses
             /\ hits = done - misses
        /\ (Bounded /\ evicted = NoneKey /\ currsize <= 1 /\ done >= 1) =>
             /\ Sum(computed, CallIds) = 1
             /\ misses = 1 /\ hits = done - 1
             /\ \A k \in DOMAIN cache :
                  /\ computed[StoredResult(k)] = 1
                  /\ ret.kind = "hit" => ret.value = StoredResult(k)
\* bounded: f(3), then f(3.0) and f(3) again: one computation, two hits, and
\* the last call got what the first one stored
C9_Witness ==
    /\ Single /\ Idle /\ ~cleared /\ Bounded /\ ~typed
    /\ done = 3 /\ hits = 2 /\ misses = 1 /\ currsize = 1
    /\ computed[1] = 1 /\ ret = [kind |-> "hit", value |-> 1, call |-> 2]

\* C10: in every mode, once concurrent calls have all returned and no
\* cache_clear() has run, hits + misses is the number of those calls.
C10_NoLostUpdate == (Idle /\ ~cleared) => hits + misses = done

\* C11: in every mode, whatever the other callers are doing, the tuple that
\* cache_info() returns is the hits, misses, maxsize and currsize of one
\* state in which every stored entry has had its miss counted: its currsize
\* is not larger than its misses.
C11_InfoSnapshot ==
    reported.valid =>
        /\ reported.maxsize = maxsize
        /\ reported.currsize <= reported.misses

\* some argument of call c is not hashable
UnhashableCall(c) ==
    Unhashable(CallSet[c].args) \/ Unhashable(Values(CallSet[c].kwds))
\* C12: in every mode, typed or not, with or without keyword arguments, a
\* call with an unhashable argument raises TypeError as soon as it is made:
\* the lock has not been taken, the computation has not run, and hits,
\* misses, the dict and the recency list are as they were.
C12_UnhashableFails ==
    [][\A t \in Threads : \A c \in CallIds :
         (UnhashableCall(c) /\ StartCall(t, c))
         => /\ ret' = [kind |-> "TypeError", value |-> NoneResult, call |-> c]
            /\ pc'[t] = "idle"
            /\ shared' = shared
            /\ computed' = computed]_vars

\* the positions at which the computation is called (lines 136, 150, 175)
CallPos == {"d_call", "u_call", "b_call"}
\* the key of the call that returned or raised last
LastKey == CallKey(ret.call)
\* C13: in every mode, when the computation raises during a miss, the
\* exception reaches the caller, the dict, the recency list, currsize and
\* hits are as they were, misses has changed by at most one, and the caller
\* does not hold the lock. For a single caller the key is not stored after
\* the failure, and the next call with that key misses again and calls the
\* computation again.
C13_FailureStoresNothing ==
    [][\A t \in Threads :
         /\ (pc[t] \in CallPos /\ pc'[t] = "idle")
            => /\ ret' = [kind |-> "Failure", value |-> NoneResult,
                          call |-> call[t]]
               /\ computed'[call[t]] = computed[call[t]] + 1
               /\ cache' = cache /\ currsize' = currsize
               /\ links' = links /\ nonlocal_root' = nonlocal_root
               /\ ListKeys' = ListKeys
               /\ hits' = hits
               /\ misses' - misses \in {0, 1}
               /\ lock' # t
               /\ (Single /\ ~Disabled) => ~In(cache', key[t])
         /\ (Single /\ ret.kind = "Failure" /\ AtLookup(t) /\ pc'[t] # pc[t]
                    /\ KeyEq(key[t], LastKey))
            => pc'[t] \in CallPos]_vars
\* a bounded cache that holds f(4); f(3) has failed twice in a row
C13_Witness ==
    /\ Single /\ Idle /\ Bounded /\ ~cleared
    /\ ret = [kind |-> "Failure", value |-> NoneResult, call |-> 1]
    /\ computed[1] = 2 /\ computed[3] = 1
    /\ hits = 0 /\ misses = 1 /\ currsize = 1 /\ lock = NoOwner
    /\ ~In(cache, CallKey(1))

\* C14: lru_cache with a negative maxsize is refused when the cache is
\* configured, so no call on such a cache runs the computation or raises.
C14_NegativeRejected ==
    (~maxsize.none /\ maxsize.n < 0) =>
        /\ \A c \in CallIds : computed[c] = 0
        /\ ret.kind # "KeyError"

\* the (name, value) pairs of the keyword arguments of call c
KwPairs(c) == {CallSet[c].kwds[i] : i \in 1 .. Len(CallSet[c].kwds)}
\* two calls with the same positional arguments and the same keyword
\* arguments, in whatever order the keywords were written
SameKeywords(c1, c2) ==
    /\ CallSet[c1].args = CallSet[c2].args
    /\ Len(CallSet[c1].kwds) = Len(CallSet[c2].kwds)
    /\ KwPairs(c1) = KwPairs(c2)
\* c1 passes one value positionally and c2 passes the same value by keyword
PositionalAndKeyword(c1, c2) ==
    /\ Len(CallSet[c1].args) = 1 /\ CallSet[c1].kwds = <<>>
    /\ CallSet[c2].args = <<>> /\ Len(CallSet[c2].kwds) = 1
    /\ CallSet[c2].kwds[1].value = CallSet[c1].args[1]
\* C15: a call whose positional arguments and keyword name/value pairs are
\* those of the call that made a stored entry, the keywords in any order,
\* finds that entry (it is a hit); a call that passes by keyword the value
\* the other passed positionally, or the reverse, does not find it.
C15_KeywordOrder ==
    \A t \in Threads : \A k \in DOMAIN cache :
        AtLookup(t) =>
            /\ SameKeywords(StoredResult(k), call[t]) => KeyEq(k, key[t])
            /\ (\/ PositionalAndKeyword(StoredResult(k), call[t])
                \/ PositionalAndKeyword(call[t], StoredResult(k)))
               => ~KeyEq(k, key[t])
\* f(3), f(a=3) and f(a=3, b=4) each have their entry, and f(b=4, a=3) was a
\* hit on the entry that f(a=3, b=4) made
C15_Witness ==
    /\ Single /\ Idle /\ IsUnbounded /\ ~cleared
    /\ {cache[k] : k \in DOMAIN cache} = {1, 4, 6}
    /\ hits = 1 /\ misses = 3
    /\ ret = [kind |-> "hit", value |-> 6, call |-> 7]

\* a target has been constructed
Constructed == phase \in {"ready", "entered", "exited", "failed"}
\* count is the number of rows of the INSERTs that succeeded since
\* __enter__, and no row that waits in the buffer is among them
CountIsSent ==
    phase = "entered" =>
        /\ count = Cardinality(sent)
        /\ Rows(_buffer) \cap sent = {}
\* C16: between __enter__ and __exit__, count is the number of rows of the
\* batches whose INSERT succeeded since __enter__; the rows waiting in the
\* buffer are not counted, and a write() whose INSERT raised leaves count
\* as it was and counts none of the rows of its batch.
C16_CountIsInserted ==
    /\ CountIsSent
    /\ [][/\ CountIsSent'
          /\ (phase = "entered" /\ outcome' = "SQLError")
             => /\ count' = count
                /\ sent' = sent
                /\ (phase' = "entered" => (written' \notin sent'))]_vars
\* the second with-block: rows 3 and 4 were inserted, the INSERT of rows 5
\* and 6 raised
C16_Witness ==
    /\ phase = "entered" /\ contexts = 2 /\ insert = 2
    /\ written = 6 /\ outcome = "SQLError"
    /\ count = 2 /\ sent = {3, 4} /\ _buffer = <<>>

\* fewer than commit rows have been inserted since the last COMMIT
PendingBelowCommit == Constructed => Cardinality(pending) < commit
ParamOf ==
    [str |-> "str_type", int |-> "int_type", float |-> "fixed_type",
     bool |-> "bool_type", date |-> "date_type", time |-> "time_type",
     datetime |-> "datetime_type", IPv4Address |-> "ip_type",
     IPv6Address |-> "ip_type",
     lars_Date |-> "date_type", lars_Time |-> "time_type",
     lars_DateTime |-> "datetime_type", Url |-> "str_type",
     lars_IPv4Address |-> "ip_type", lars_IPv6Address |-> "ip_type",
     IPv4Port |-> "ip_type", IPv6Port |-> "ip_type",
     Hostname |-> "hostname_type", Path |-> "path_type"]
\* C18: for SQLTarget and for OracleTarget alike, whatever type parameters
\* are passed or left to their defaults, type_map gives each python type
\* the value of the parameter of its name: int has int_type, float has
\* fixed_type, bool has bool_type, and so on.
C18_TypeParamsByName ==
    Constructed =>
        /\ DOMAIN type_map = DOMAIN ParamOf
        /\ \A T \in DOMAIN type_map : type_map[T] = passed.types[ParamOf[T]]

RECURSIVE WalkLinks(_, _, _, _)
\* the links on the cycle, following NEXT from link n until the root (or
\* until fuel runs out)
WalkLinks(h, n, root, fuel) ==
    IF n = root \/ fuel = 0 THEN <<>>
    ELSE <<n>> \o WalkLinks(h, h[n].NEXT, root, fuel - 1)
\* the real links of the recency list, least recently used first
ListLinks ==
    WalkLinks(links, links[nonlocal_root].NEXT, nonlocal_root,
              Cardinality(DOMAIN links))
\* C19: bounded, whenever the lock is free, whatever hits, misses, racing
\* inserts, evictions and clears came before: following NEXT from the root
\* visits currsize links, each once, and comes back to the root; PREV is
\* the inverse of NEXT; the root carries no key and no result; the keys on
\* the cycle are the keys of the dict, and the dict gives each key the link
\* that carries it.
C19_ListIsCycle ==
    (Bounded /\ lock = NoOwner) =>
        LET root == nonlocal_root
            on == {ListLinks[i] : i \in 1 .. Len(ListLinks)}
        IN /\ Len(ListLinks) = currsize
           /\ Cardinality(on) = currsize
           /\ root \notin on
           /\ links[IF ListLinks = <<>> THEN root
                    ELSE ListLinks[Len(ListLinks)]].NEXT = root
           /\ \A n \in on \cup {root} :
                /\ links[n].NEXT \in on \cup {root}
                /\ links[n].PREV \in on \cup {root}
                /\ links[links[n].NEXT].PREV = n
                /\ links[links[n].PREV].NEXT = n
           /\ links[root].KEY = NoneKey /\ links[root].RESULT = NoneResult
           /\ {links[n].KEY : n \in on} = DOMAIN cache
           /\ \A k \in DOMAIN cache : cache[k] \in on /\ links[cache[k]].KEY = k
\* several callers, maxsize 1: a second key has evicted the first, so that
\* the root is no longer the list it was at the start, and was then hit
C19_Witness ==
    /\ Cardinality(callers) > 1 /\ maxsize = Sized(1) /\ lock = NoOwner
    /\ branch = "evict" /\ nonlocal_root # 0
    /\ currsize = 1 /\ hits = 1 /\ misses = 2

\* C20: bounded: a caller that is running the computation does not own the
\* lock, so that a caller waiting to look a key up can take the lock unless
\* a third caller has it.
C20_ComputeOutsideLock ==
    Bounded =>
        \A t \in Threads :
            pc[t] = "b_call" =>
                /\ lock # t
                /\ \A u \in Threads :
                     (pc[u] = "b_acquire" /\ lock = NoOwner)
                     => ENABLED BAcquire(u)
\* thread 1 missed on a key and is running the computation; meanwhile the
\* other caller stored that key (the only miss counted) and then hit it
C20_Witness ==
    /\ Bounded /\ ~cleared /\ pc[1] = "b_call" /\ lock = NoOwner
    /\ In(cache, key[1]) /\ hits = 1 /\ misses = 1
    /\ ret.kind = "hit"

\* C21: bounded: a call that misses and whose computation returns leaves
\* both counters alone at its lookup and while it computes, and at its
\* insert adds exactly one to misses and nothing to hits, in each of the
\* three insert branches: key already there, evict and reuse, new link.
C21_MissCountsOnce ==
    [][\A t \in Threads :
         /\ (Bounded /\ pc[t] = "b_lookup" /\ pc'[t] = "b_call")
            => stats' = stats
         /\ (Bounded /\ pc[t] = "b_call" /\ pc'[t] = "b_acquire2")
            => stats' = stats
         /\ (Bounded /\ pc[t] = "b_insert" /\ pc'[t] = "idle")
            => /\ misses' = misses + 1
               /\ hits' = hits
               /\ ret'.kind = "miss"
               /\ branch' = IF In(cache, key[t]) THEN "present"
                            ELSE IF currsize >= maxsize.n THEN "evict"
                            ELSE "new"]_vars
\* two callers missed on the same key, one inserted it and the other found
\* it there, and then a third key was inserted into a full cache
C21_Witness ==
    /\ Cardinality(callers) > 1 /\ maxsize = Sized(1) /\ Idle
    /\ branch = "evict" /\ hits = 0 /\ misses = 3 /\ ~cleared
    /\ computed = [c \in CallIds |-> IF c = 1 THEN 2 ELSE IF c = 3 THEN 1 ELSE 0]
    /\ In(cache, [kind |-> "tuple", elems |-> <<Val("int", 4)>>])

\* C22: bounded: the insert of a caller that finds its key already in the
\* dict (another caller stored it while the lock was free) adds one to
\* misses and changes nothing else: the dict, every link and so the stored
\* result of the key, the root, the list and the place of the key in it,
\* the size and hits stay as they were; the caller returns the result it
\* computed, which is not stored.
C22_RacingInsertKeeps ==
    [][\A t \in Threads :
         (Bounded /\ pc[t] = "b_insert" /\ In(cache, key[t])
                  /\ pc'[t] = "idle")
         => /\ cache' = cache
            /\ links' = links
            /\ nonlocal_root' = nonlocal_root
            /\ ListKeys' = ListKeys
            /\ currsize' = currsize
            /\ links'[Get(cache, key[t])].RESULT
                 = links[Get(cache, key[t])].RESULT
            /\ hits' = hits
            /\ misses' = misses + 1
            /\ ret'.kind = "miss" /\ ret'.value = result[t]]_vars
\* f(3) and f(3.0) raced on an untyped cache: one result is stored, the
\* other caller found the key there and returned its own, different result
C22_Witness ==
    /\ Bounded /\ ~typed /\ Idle /\ branch = "present" /\ ret.kind = "miss"
    /\ hits = 0 /\ misses = 2 /\ currsize = 1
    /\ In(cache, CallKey(ret.call))
    /\ links[Get(cache, CallKey(ret.call))].RESULT # ret.value

\* the keys of the list after a step, as a set
KeysAfter == {ListKeys'[i] : i \in 1 .. Len(ListKeys')}
\* C23: bounded, maxsize >= 1 (maxsize 1 included): the eviction of lines
\* 184-195 is the evict-and-reuse step: the list of keys, least recently
\* used first, becomes the old list without its first key and with the new
\* key at the end; the dict holds exactly the keys of the new list, each
\* mapped to the link that carries it, the kept keys with the results they
\* had and the new key, in the old sentinel, with the new result; the link
\* after the old sentinel is the new sentinel, with key and result cleared.
C23_EvictionIsEvictAndReuse ==
    [][\A t \in Threads :
         (Bounded /\ pc[t] = "b_insert" /\ pc'[t] = "idle"
                  /\ ~In(cache, key[t]) /\ currsize >= maxsize.n)
         => /\ Len(ListKeys) = maxsize.n
            /\ ListKeys' = Tail(ListKeys) \o <<key[t]>>
            /\ DOMAIN cache' = KeysAfter
            /\ DOMAIN cache' = (DOMAIN cache \ {Head(ListKeys)}) \cup {key[t]}
            /\ \A k \in DOMAIN cache' :
                 /\ links'[cache'[k]].KEY = k
                 /\ links'[cache'[k]].RESULT =
                      IF k = key[t] THEN result[t]
                      ELSE links[cache[k]].RESULT
            /\ cache'[key[t]] = nonlocal_root
            /\ nonlocal_root' = links[nonlocal_root].NEXT
            /\ links'[nonlocal_root'].KEY = NoneKey
            /\ links'[nonlocal_root'].RESULT = NoneResult]_vars
\* maxsize 1, one caller: f(3), f(4), f(3): the only link and the sentinel
\* have changed places twice
C23_Witness ==
    /\ Single /\ maxsize = Sized(1) /\ ~typed /\ ~cleared /\ Idle
    /\ branch = "evict" /\ hits = 0 /\ misses = 3
    /\ ListKeys = <<[kind |-> "tuple", elems |-> <<Val("int", 3)>>]>>
    /\ KeyEq(evicted, [kind |-> "tuple", elems |-> <<Val("int", 4)>>])

\* C24: bounded: a hit on key k returns the result stored for k, adds one to
\* hits and moves k's link to the place just before the sentinel; misses,
\* the size, the dict, the sentinel, the key and the result of every link
\* and the order of the other keys in the list are unchanged. When k is
\* already the most recently used key, or the only one, the list is the same
\* after the hit.
C24_HitMovesToFront ==
    [][\A t \in Threads :
         (Bounded /\ pc[t] = "b_lookup" /\ In(cache, key[t])
                  /\ pc'[t] = "idle")
         => LET link == Get(cache, key[t])
            IN /\ ret'.kind = "hit" /\ ret'.value = links[link].RESULT
               /\ hits' = hits + 1
               /\ misses' = misses
               /\ cache' = cache
               /\ currsize' = currsize
               /\ nonlocal_root' = nonlocal_root
               /\ DOMAIN links' = DOMAIN links
               /\ \A n \in DOMAIN links :
                    /\ links'[n].KEY = links[n].KEY
                    /\ links'[n].RESULT = links[n].RESULT
               /\ links'[nonlocal_root].PREV = link
               /\ links'[link].NEXT = nonlocal_root
               /\ ListKeys' = Without(ListKeys, key[t]) \o <<links[link].KEY>>
               /\ (links[nonlocal_root].PREV = link) => ListKeys' = ListKeys
         ]_vars
\* maxsize 2, one caller: f(3), f(4), then two hits on f(3): the first moves
\* it from the oldest to the newest place, the second finds it there
C24_Witness ==
    /\ Single /\ maxsize = Sized(2) /\ ~typed /\ ~cleared /\ Idle
    /\ ret.kind = "hit" /\ hits = 2 /\ misses = 2
    /\ ListKeys = <<[kind |-> "tuple", elems |-> <<Val("int", 4)>>],
                    [kind |-> "tuple", elems |-> <<Val("int", 3)>>]>>
    /\ Get(cache, [kind |-> "tuple", elems |-> <<Val("int", 3)>>]) = 1

\* the keys a step adds to the dict
Added == {k \in DOMAIN cache' : ~In(cache, k)}
\* thread t inserts a key that is not in the dict: into a full cache, or
\* into one with room
Evicts(t) ==
    /\ pc[t] = "b_insert" /\ pc'[t] = "idle"
    /\ ~In(cache, key[t]) /\ currsize >= maxsize.n
Appends(t) ==
    /\ pc[t] = "b_insert" /\ pc'[t] = "idle"
    /\ ~In(cache, key[t]) /\ currsize < maxsize.n
\* C25: bounded, in every step of every behaviour: a key that was absent
\* and is present after the step is the key of the caller whose insert the
\* step is, whether into free room or by eviction, and it is the last key
\* of the list (the most recently used) in the state after the step; a key
\* that was present and is absent after the step was the first key of the
\* list (the least recently used) at an eviction, or the step is
\* cache_clear() emptying the dict.
C25_EntryLifecycle ==
    [][Bounded =>
         /\ \A k \in Added :
              /\ \E t \in Threads : (Evicts(t) \/ Appends(t)) /\ k = key[t]
              /\ ListKeys' # <<>>
              /\ ListKeys'[Len(ListKeys')] = k
              /\ Added = {k}
         /\ \A k \in Removed :
              \/ \E t \in Threads :
                   /\ pc[t] = "c_clear" /\ pc'[t] = "c_stats"
                   /\ cache' = <<>>
              \/ /\ \E t \in Threads : Evicts(t)
                 /\ k = Head(ListKeys)
                 /\ Removed = {k}]_vars
\* maxsize 1, one caller: a key went into free room, a second key evicted
\* it, cache_clear() removed that one, and a key went into free room again
C25_Witness ==
    /\ Single /\ maxsize = Sized(1) /\ Idle /\ cleared
    /\ evicted # NoneKey /\ branch = "new" /\ currsize = 1 /\ misses = 1

\* C26: with every thread that can go on eventually scheduled, and every
\* computation returning or raising, every call, cache_info() and
\* cache_clear() that a caller has begun eventually ends, with one caller or
\* several; a caller that is between operations never owns the lock, also
\* after an exception raised inside "with lock:", so no caller waits for
\* the lock for ever.
C26_EveryOperationEnds ==
    /\ [](\A t \in Threads : pc[t] = "idle" => lock # t)
    /\ \A t \in Threads : (pc[t] # "idle") ~> (pc[t] = "idle")
\* f([]) has raised TypeError inside the first "with lock:" of the bounded
\* wrapper; now one caller is inside cache_info() with the lock and the
\* other waits for it in cache_clear()
C26_Witness ==
    /\ Bounded /\ ~typed /\ ret.kind = "TypeError" /\ ret.call = 8
    /\ \E t, u \in callers :
         /\ t # u
         /\ lock = t /\ pc[t] = "i_hits"
         /\ pc[u] = "c_acquire"

\* the number of times row r was passed to cursor.execute
Executions(r) == Cardinality({i \in 1 .. Len(executed) : executed[i] = r})
\* C27: an SQLTarget passes no row to cursor.execute more than once: a row
\* waiting in the buffer has not been passed yet, and every call of
\* _insert_buffer, from write or from __exit__, whether execute succeeds or
\* raises, passes the whole buffer and leaves it empty, so that __exit__
\* after a failed batch has nothing to insert again. When __exit__ has
\* returned normally the buffer is empty, every row that write accepted has
\* been passed exactly once (those of the batches that did not fail are
\* among them), and no inserted row is left without a commit after it.
C27_SubmittedOnce ==
    /\ [](/\ \A r \in 1 .. written : Executions(r) <= 1
          /\ \A r \in Rows(_buffer) : Executions(r) = 0
          /\ \A r \in 1 .. written : Executions(r) = 0 => r \in Rows(_buffer)
          /\ sent \subseteq Rows(executed)
          /\ phase = "exited" =>
               /\ _buffer = <<>>
               /\ \A r \in 1 .. written : Executions(r) = 1
               /\ pending = {})
    /\ [][/\ executed' # executed => _buffer' = <<>>
          /\ (phase = "entered" /\ phase' \in {"exited", "failed"}
                /\ _buffer = <<>>) => executed' = executed]_vars
\* insert 2: the batch of rows 1 and 2 failed in write, row 3 was written
\* and __exit__ inserted it and committed: three rows passed once each
C27_Witness ==
    /\ phase = "exited" /\ outcome = "ok" /\ insert = 2 /\ contexts = 1
    /\ written = 3 /\ executed = <<1, 2, 3>> /\ sent = {3}
    /\ _buffer = <<>> /\ pending = {}

====
